---- MODULE Spec2Model ----
(***************************************************************************)
(* Role-gated SQL gateway with checkpoint sessions (PostgreSQL MCP server, *)
(* src/filesystem/src/roots-utils.ts lines 42-469).                        *)
(*                                                                         *)
(* SQL text is a sequence of one-character strings, so that trim(),        *)
(* toUpperCase() and split(/[\s;]/) are computed and not assumed.          *)
(* Every tool handler is cut at its awaits: one action per synchronous     *)
(* segment.  A pg client runs its queries first-in first-out, and the      *)
(* continuation of an awaited query runs in the microtask that follows     *)
(* the query's completion, so "the database answers the head of a          *)
(* connection's queue" and "the awaiting handler runs to its next await"   *)
(* are one step.                                                           *)
(***************************************************************************)
EXTENDS Integers, Sequences, FiniteSets, TLC

(***************************************************************************)
(* Bounds of the model.                                                    *)
(***************************************************************************)
NumCallers == 2    \* tool calls that can be in flight at once
PoolSize == 2      \* clients the pool can hand out
MaxWrites == 3     \* data-modifying statements the database executes in a run
MaxCalls == 3      \* tool calls made in a run in which calls overlap
MaxIdleCalls == 2  \* query calls made in a run in which no session is started

Callers == 1..NumCallers
Conns == 1..PoolSize

(***************************************************************************)
(* Characters and strings.                                                 *)
(***************************************************************************)
UpperLetters == <<"A","B","C","D","E","F","G","H","I","J","K","L","M",
                  "N","O","P","Q","R","S","T","U","V","W","X","Y","Z">>
LowerLetters == <<"a","b","c","d","e","f","g","h","i","j","k","l","m",
                  "n","o","p","q","r","s","t","u","v","w","x","y","z">>

\* \s of the regular expression, and what trim() strips (the members used here)
WhiteSpace == {" ", "\t", "\n"}

\* the character class [\s;] of the split
IsSeparator(ch) == ch \in WhiteSpace \cup {";"}

UpperChar(ch) ==
  IF \E i \in 1..26 : LowerLetters[i] = ch
  THEN UpperLetters[CHOOSE i \in 1..26 : LowerLetters[i] = ch]
  ELSE ch

LowerChar(ch) ==
  IF \E i \in 1..26 : UpperLetters[i] = ch
  THEN LowerLetters[CHOOSE i \in 1..26 : UpperLetters[i] = ch]
  ELSE ch

toUpperCase(s) == [i \in 1..Len(s) |-> UpperChar(s[i])]

toLowerCase(s) == [i \in 1..Len(s) |-> LowerChar(s[i])]

RECURSIVE trimStart(_)
trimStart(s) ==
  IF s # <<>> /\ Head(s) \in WhiteSpace THEN trimStart(Tail(s)) ELSE s

RECURSIVE trimEnd(_)
trimEnd(s) ==
  IF s # <<>> /\ s[Len(s)] \in WhiteSpace
  THEN trimEnd(SubSeq(s, 1, Len(s) - 1))
  ELSE s

trim(s) == trimEnd(trimStart(s))

\* s.split(/[\s;]/)[0]: what precedes the first separator (all of s when
\* there is none, the empty string when s starts with one or is empty)
RECURSIVE splitFirst(_)
splitFirst(s) ==
  IF s = <<>> \/ IsSeparator(Head(s))
  THEN <<>>
  ELSE <<Head(s)>> \o splitFirst(Tail(s))

(***************************************************************************)
(* Keywords.                                                               *)
(***************************************************************************)
kwSELECT == <<"S","E","L","E","C","T">>
kwINSERT == <<"I","N","S","E","R","T">>
kwUPDATE == <<"U","P","D","A","T","E">>
kwDELETE == <<"D","E","L","E","T","E">>
kwTRUNCATE == <<"T","R","U","N","C","A","T","E">>
kwCREATE == <<"C","R","E","A","T","E">>
kwALTER == <<"A","L","T","E","R">>
kwDROP == <<"D","R","O","P">>
kwWITH == <<"W","I","T","H">>
kwSHOW == <<"S","H","O","W">>
kwEXPLAIN == <<"E","X","P","L","A","I","N">>
kwRENAME == <<"R","E","N","A","M","E">>
kwGRANT == <<"G","R","A","N","T">>

Includes(arr, x) == \E i \in 1..Len(arr) : arr[i] = x

(***************************************************************************)
(* Privilege table and permission gate.                                    *)
(***************************************************************************)
Roles == {"read", "insert", "write", "admin"}

\* faulty variant: the insert role without SELECT
databaseRolesAppendOnly ==
  [ read   |-> <<kwSELECT>>,
    insert |-> <<kwINSERT>>,
    write  |-> <<kwSELECT, kwINSERT, kwUPDATE, kwDELETE>>,
    admin  |-> <<kwSELECT, kwINSERT, kwUPDATE, kwDELETE, kwTRUNCATE, kwCREATE, kwALTER, kwDROP>> ]

\* faulty variant: the read role may INSERT
databaseRolesReadInserts ==
  [ read   |-> <<kwSELECT, kwINSERT>>,
    insert |-> <<kwSELECT, kwINSERT>>,
    write  |-> <<kwSELECT, kwINSERT, kwUPDATE, kwDELETE>>,
    admin  |-> <<kwSELECT, kwINSERT, kwUPDATE, kwDELETE, kwTRUNCATE, kwCREATE, kwALTER, kwDROP>> ]

databaseRoles ==
  [ read   |-> <<kwSELECT>>,
    insert |-> <<kwSELECT, kwINSERT>>,
    write  |-> <<kwSELECT, kwINSERT, kwUPDATE, kwDELETE>>,
    admin  |-> <<kwSELECT, kwINSERT, kwUPDATE, kwDELETE, kwTRUNCATE, kwCREATE, kwALTER, kwDROP>> ]

\* faulty variant: the command without toUpperCase()
CommandCaseSensitive(sql) == splitFirst(trim(sql))

\* const command = sql.trim().toUpperCase().split(/[\s;]/)[0]
Command(sql) == splitFirst(toUpperCase(trim(sql)))

readCommands == <<kwSELECT, kwWITH, kwSHOW, kwEXPLAIN>>

\* faulty variant: a command that is not a privilege is taken for a read
RequiredPrivilegeLenient(command) ==
  IF command = kwRENAME THEN kwALTER
  ELSE IF command \in {kwINSERT, kwUPDATE, kwDELETE, kwTRUNCATE, kwCREATE, kwALTER, kwDROP}
  THEN command
  ELSE kwSELECT

RequiredPrivilege(command) ==
  IF Includes(readCommands, command) THEN kwSELECT
  ELSE IF command = kwRENAME THEN kwALTER
  ELSE command

\* faulty variant: only write commands are checked
checkPermissionsWritesOnly(sql, grantedPrivileges) ==
  \/ ~Includes(<<kwINSERT, kwUPDATE, kwDELETE, kwTRUNCATE, kwCREATE, kwALTER, kwDROP, kwRENAME>>,
               splitFirst(toUpperCase(trim(sql))))
  \/ Includes(grantedPrivileges, splitFirst(toUpperCase(trim(sql))))

\* TRUE when checkPermissions returns, FALSE when it throws
checkPermissions(sql, grantedPrivileges) ==
  Includes(grantedPrivileges, RequiredPrivilege(Command(sql)))

\* faulty variant: WITH is taken for a write
writeCommandsAndWith ==
  <<kwINSERT, kwUPDATE, kwDELETE, kwTRUNCATE, kwCREATE, kwALTER, kwDROP, kwRENAME, kwWITH>>

\* faulty variant: RENAME is not taken for a write
writeCommandsNoRename ==
  <<kwINSERT, kwUPDATE, kwDELETE, kwTRUNCATE, kwCREATE, kwALTER, kwDROP>>

writeCommands ==
  <<kwINSERT, kwUPDATE, kwDELETE, kwTRUNCATE, kwCREATE, kwALTER, kwDROP, kwRENAME>>

isWrite(sql) == Includes(writeCommands, Command(sql))


(***************************************************************************)
(* Statements the callers send in the state machine.                       *)
(***************************************************************************)
sqlSelect == toLowerCase(kwSELECT) \o <<" ", "1">>
sqlInsert == kwINSERT \o <<" ", "t">>
sqlUpdate == <<" ">> \o toLowerCase(kwUPDATE) \o <<";">>
sqlDelete == kwDELETE \o <<" ", "t">>
sqlDrop == kwDROP \o <<"\n", "t">>
sqlGrant == kwGRANT
sqlWith == toLowerCase(kwWITH) \o <<"\t", "x">>

SqlTexts == {sqlSelect, sqlInsert, sqlUpdate, sqlDelete, sqlDrop, sqlGrant, sqlWith}

\* in normal mode a text matters by the gate's verdict and by whether the
\* database writes: a read, a write and a text no role may send
IdleTexts == {sqlSelect, sqlInsert, sqlGrant}

\* checkpointId of a call: Undefined when the argument is left out
Undefined == -1
CheckpointIds == {Undefined} \cup (0..MaxWrites)

(***************************************************************************)
(* State.                                                                  *)
(***************************************************************************)
VARIABLES
  role,               \* config.role
  sessionClient,      \* the session's client, 0 for null
  checkpointMode,
  checkpointHistory,  \* sequence of [id, query, timestamp]
  checkpointCounter,
  pc,                 \* per caller: where its handler is suspended
  req,                \* per caller: the tool call it is serving
  res,                \* per caller: what the handler returned or threw
  loc,                \* per caller: the handler's locals
  held,               \* pool: clients checked out
  conn,               \* per client: queued queries and the server's transaction
  committed,          \* database: the durable writes
  nwrites,            \* database: writes executed so far (the next write's name)
  cpTok,              \* history variable: checkpoint id -> the write it follows
  undone,             \* history variable: ids a rollback removed in this session
  lost,               \* history variable: ids whose SAVEPOINT failed in this session
  lastRb,             \* history variable: K when rollback(K) of an intact history
                      \* was the session's last change, else 0
  probe,              \* the permission gate applied to one text on its own
  ncalls,             \* calls made so far, counted where calls overlap
  rejected            \* callers one of whose awaited queries the database rejected

sessionVars == <<sessionClient, checkpointMode, checkpointHistory, checkpointCounter>>
ghostVars == <<cpTok, undone, lost, lastRb>>
dbVars == <<held, conn, committed, nwrites>>

\* new Date(): time is counted in the writes the database has executed
Now == nwrites
vars == <<role, sessionClient, checkpointMode, checkpointHistory,
          checkpointCounter, pc, req, res, loc, held, conn, committed,
          nwrites, cpTok, undone, lost, lastRb, probe, ncalls, rejected>>

NoReq == [op |-> "none", sql |-> <<>>, id |-> Undefined]
NoRes == [kind |-> "", data |-> <<>>, warned |-> FALSE]
NoLoc == [on |-> 0, client |-> 0, checkpointId |-> 0, tok |-> 0, error |-> ""]
NoConn == [q |-> <<>>, tx |-> "none", log |-> <<>>, sp |-> <<>>]
NoProbe == [lead |-> <<>>, word |-> <<>>, tail |-> <<>>, sql |-> <<>>,
            done |-> FALSE, command |-> <<>>, required |-> <<>>,
            allowed |-> [r \in Roles |-> FALSE], isWrite |-> FALSE]

Result(kind) == [kind |-> kind, data |-> <<>>, warned |-> FALSE]

\* the error a rejected query throws, told apart by the statement that failed
DbError(stmt) == [kind |-> "DbError", data |-> <<stmt>>, warned |-> FALSE]

\* const grantedPrivileges = databaseRoles[config.role]
grantedPrivileges == databaseRoles[role]

\* faulty variant: the append-only role is given a read-only transaction too
isReadOnlyBelowWrite == role \in {"read", "insert"}

\* const isReadOnly = config.role === "read"
isReadOnly == role = "read"

InitMachine ==
  /\ role \in Roles
  /\ sessionClient = 0
  /\ checkpointMode = FALSE
  /\ checkpointHistory = <<>>
  /\ checkpointCounter = 0
  /\ pc = [c \in Callers |-> "idle"]
  /\ req = [c \in Callers |-> NoReq]
  /\ res = [c \in Callers |-> NoRes]
  /\ loc = [c \in Callers |-> NoLoc]
  /\ held = {}
  /\ conn = [k \in Conns |-> NoConn]
  /\ committed = {}
  /\ nwrites = 0
  /\ cpTok = <<>>
  /\ undone = {}
  /\ lost = {}
  /\ lastRb = 0
  /\ ncalls = 0
  /\ rejected = {}

Init == InitMachine /\ probe = NoProbe

(***************************************************************************)
(* The database behind one client (pg client.query, PostgreSQL).           *)
(* A query is [caller, kind, arg]; kinds are BEGIN, BEGIN_RO, COMMIT,      *)
(* ROLLBACK, SAVEPOINT, ROLLBACK_TO and SQL.  A transaction is the list of *)
(* its writes; a savepoint remembers how long the list was.                *)
(***************************************************************************)
Query(c, kind, arg) == [caller |-> c, kind |-> kind, arg |-> arg]

DbModifies(sql) ==
  Includes(<<kwINSERT, kwUPDATE, kwDELETE, kwTRUNCATE, kwCREATE, kwALTER, kwDROP>>,
           Command(sql))

HasSavepoint(cr, id) == \E i \in 1..Len(cr.sp) : cr.sp[i].id = id

LastSavepoint(cr, id) ==
  CHOOSE i \in 1..Len(cr.sp) :
    cr.sp[i].id = id /\ \A j \in (i+1)..Len(cr.sp) : cr.sp[j].id # id

\* whether the server can execute the query at all
DbCan(cr, q) ==
  CASE q.kind = "SAVEPOINT" -> cr.tx # "none"
    [] q.kind = "ROLLBACK_TO" -> cr.tx # "none" /\ HasSavepoint(cr, q.arg)
    [] q.kind = "SQL" -> ~(cr.tx = "ro" /\ DbModifies(q.arg))
    [] OTHER -> TRUE

\* the client's record once the server has executed the head of its queue
DbDone(cr, q, t) ==
  LET rest == [cr EXCEPT !.q = Tail(@)] IN
  CASE q.kind = "BEGIN" ->
         IF cr.tx = "none" THEN [rest EXCEPT !.tx = "rw"] ELSE rest
    [] q.kind = "BEGIN_RO" ->
         IF cr.tx = "none" THEN [rest EXCEPT !.tx = "ro"] ELSE rest
    [] q.kind \in {"COMMIT", "ROLLBACK"} ->
         [rest EXCEPT !.tx = "none", !.log = <<>>, !.sp = <<>>]
    [] q.kind = "SAVEPOINT" ->
         [rest EXCEPT !.sp = Append(@, [id |-> q.arg, len |-> Len(cr.log)])]
    [] q.kind = "ROLLBACK_TO" ->
         LET i == LastSavepoint(cr, q.arg) IN
         [rest EXCEPT !.log = SubSeq(@, 1, cr.sp[i].len), !.sp = SubSeq(@, 1, i)]
    [] q.kind = "SQL" ->
         IF DbModifies(q.arg) /\ cr.tx # "none"
         THEN [rest EXCEPT !.log = Append(@, t)]
         ELSE rest

Min(S) == CHOOSE x \in S : \A y \in S : x <= y

Range(s) == {s[i] : i \in 1..Len(s)}

\* the durable writes once the server has executed the query
DbCommitted(cr, q, t) ==
  CASE q.kind = "COMMIT" -> committed \cup Range(cr.log)
    [] q.kind = "SQL" /\ DbModifies(q.arg) /\ cr.tx = "none" -> committed \cup {t}
    [] OTHER -> committed

\* the client's record once the query has failed: a statement that fails
\* changes nothing; a COMMIT or ROLLBACK that fails leaves no transaction
\* behind (the server has rolled it back)
DbFailed(cr, q) ==
  IF q.kind \in {"COMMIT", "ROLLBACK"}
  THEN [cr EXCEPT !.q = Tail(@), !.tx = "none", !.log = <<>>, !.sp = <<>>]
  ELSE [cr EXCEPT !.q = Tail(@)]

\* caller c awaits the query at the head of its client's queue
Awaited(c) ==
  /\ loc[c].on # 0
  /\ conn[loc[c].on].q # <<>>
  /\ Head(conn[loc[c].on].q).caller = c

WritesStmt(q) == q.kind = "SQL" /\ DbModifies(q.arg)

\* The server executes the awaited query of c; `then` is what the handler
\* queues before its next await: <<>> or <<client, query>>.
Answer(c, then) ==
  LET k == loc[c].on
      q == Head(conn[k].q)
      t == nwrites + 1
      after == [conn EXCEPT ![k] = DbDone(conn[k], q, t)]
  IN /\ DbCan(conn[k], q)
     /\ rejected' = rejected
     /\ committed' = DbCommitted(conn[k], q, t)
     /\ nwrites' = IF WritesStmt(q) THEN t ELSE nwrites
     /\ conn' = IF then = <<>> THEN after
                ELSE [after EXCEPT ![then[1]].q = Append(@, then[2])]

\* The awaited query of c fails.
Reject(c, then) ==
  LET k == loc[c].on
      after == [conn EXCEPT ![k] = DbFailed(conn[k], Head(conn[k].q))]
  IN /\ rejected' = rejected \cup {c}
     /\ committed' = committed
     /\ nwrites' = nwrites
     /\ conn' = IF then = <<>> THEN after
                ELSE [after EXCEPT ![then[1]].q = Append(@, then[2])]

\* pool.connect() may resolve with client k: any idle client, the lowest-numbered
\* standing for the idle clients that are in the same state as it
IdleClient(k) ==
  /\ k \notin held
  /\ \A j \in Conns : (j < k /\ j \notin held) => conn[j] # conn[k]

Send(k, q) == conn' = [conn EXCEPT ![k].q = Append(@, q)]

\* the statement caller c awaits
AwaitedStmt(c) == Head(conn[loc[c].on].q).kind

\* a handler returns or throws
Finish(c, r) ==
  /\ pc' = [pc EXCEPT ![c] = "done"]
  /\ res' = [res EXCEPT ![c] = r]


(***************************************************************************)
(* The checkpoint tool.                                                    *)
(***************************************************************************)
Calls(c, r) ==
  /\ pc[c] = "idle"
  /\ req' = [req EXCEPT ![c] = r]

Suspend(c, label) ==
  /\ pc' = [pc EXCEPT ![c] = label]
  /\ res' = res

\* faulty variant: start does not look at checkpointMode
StartCallUnguarded(c) ==
  /\ pc[c] = "idle"
  /\ req' = [req EXCEPT ![c] = [NoReq EXCEPT !.op = "start"]]
  /\ pc' = [pc EXCEPT ![c] = "start_connect"]
  /\ UNCHANGED <<role, sessionVars, res, loc, dbVars, ghostVars, probe, rejected>>

\* action === "start", up to pool.connect()
StartCall(c) ==
  /\ Calls(c, [NoReq EXCEPT !.op = "start"])
  /\ IF checkpointMode
     THEN Finish(c, Result("AlreadyActive"))
     ELSE Suspend(c, "start_connect")
  /\ UNCHANGED <<role, sessionVars, loc, dbVars, ghostVars, probe, rejected>>

\* sessionClient = await pool.connect(); sessionClient.query("BEGIN")
StartConnected(c, k) ==
  /\ pc[c] = "start_connect"
  /\ IdleClient(k)
  /\ held' = held \cup {k}
  /\ sessionClient' = k
  /\ Send(k, Query(c, "BEGIN", 0))
  /\ loc' = [loc EXCEPT ![c].on = k]
  /\ Suspend(c, "start_begin")
  /\ UNCHANGED <<role, checkpointMode, checkpointHistory, checkpointCounter,
                 req, committed, nwrites, ghostVars, probe, rejected>>

\* faulty variant: the mode is switched before the connection is there
StartConnectFailActive(c) ==
  /\ pc[c] = "start_connect"
  /\ checkpointMode' = TRUE
  /\ Finish(c, Result("PoolError"))
  /\ UNCHANGED <<role, sessionClient, checkpointHistory, checkpointCounter,
                 req, loc, dbVars, ghostVars, probe, rejected>>

\* pool.connect() rejects
StartConnectFail(c) ==
  /\ pc[c] = "start_connect"
  /\ Finish(c, Result("PoolError"))
  /\ UNCHANGED <<role, sessionVars, req, loc, dbVars, ghostVars, probe, rejected>>

\* faulty variant: the counter of a new session starts at 1
StartBeginOkCounterOne(c) ==
  /\ pc[c] = "start_begin" /\ Awaited(c)
  /\ Answer(c, <<>>)
  /\ checkpointMode' = TRUE
  /\ checkpointHistory' = <<>>
  /\ checkpointCounter' = 1
  /\ cpTok' = <<>> /\ undone' = {} /\ lost' = {} /\ lastRb' = 0
  /\ Finish(c, Result("ok"))
  /\ UNCHANGED <<role, sessionClient, req, loc, held, probe>>

\* BEGIN answered: checkpointMode = true; checkpointHistory = []; checkpointCounter = 0
StartBeginOk(c) ==
  /\ pc[c] = "start_begin" /\ Awaited(c)
  /\ Answer(c, <<>>)
  /\ checkpointMode' = TRUE
  /\ checkpointHistory' = <<>>
  /\ checkpointCounter' = 0
  /\ cpTok' = <<>> /\ undone' = {} /\ lost' = {} /\ lastRb' = 0
  /\ Finish(c, Result("ok"))
  /\ UNCHANGED <<role, sessionClient, req, loc, held, probe>>

\* BEGIN rejected: the handler throws with sessionClient still set
StartBeginFail(c) ==
  /\ pc[c] = "start_begin" /\ Awaited(c)
  /\ Reject(c, <<>>)
  /\ Finish(c, DbError(AwaitedStmt(c)))
  /\ UNCHANGED <<role, sessionVars, req, loc, held, ghostVars, probe>>

\* faulty variant: the entry is shown without its id
FormatCheckpointNoId(cp) == cp.query \o <<" ", "(", cp.timestamp, ")">>

\* `${cp.id}. ${cp.query} (${cp.timestamp})`
FormatCheckpoint(cp) == <<cp.id, ".", " ">> \o cp.query \o <<" ", "(", cp.timestamp, ")">>

\* action === "list"
ListCall(c) ==
  /\ Calls(c, [NoReq EXCEPT !.op = "list"])
  /\ Finish(c,
       IF ~checkpointMode THEN Result("NoSession")
       ELSE IF Len(checkpointHistory) = 0 THEN Result("NoCheckpoints")
       ELSE [kind |-> "list",
             data |-> [i \in 1..Len(checkpointHistory) |->
                         FormatCheckpoint(checkpointHistory[i])],
             warned |-> FALSE])
  /\ UNCHANGED <<role, sessionVars, loc, dbVars, ghostVars, probe, rejected>>

FindCheckpoint(id) ==
  \E i \in 1..Len(checkpointHistory) : checkpointHistory[i].id = id

\* faulty variant: cp.id < checkpointId
KeepBelow(history, checkpointId) ==
  SelectSeq(history, LAMBDA cp : cp.id < checkpointId)

\* faulty variant: the history is not filtered
KeepAll(history, checkpointId) == history

\* checkpointHistory.filter(cp => cp.id <= checkpointId)
KeepUpTo(history, checkpointId) ==
  SelectSeq(history, LAMBDA cp : cp.id <= checkpointId)

HistoryIds == {checkpointHistory[i].id : i \in 1..Len(checkpointHistory)}

\* faulty variant: the checkpointId is looked at before the session
RollbackCallIdFirst(c, id) ==
  /\ pc[c] = "idle"
  /\ req' = [req EXCEPT ![c] = [NoReq EXCEPT !.op = "rollback", !.id = id]]
  /\ pc' = [pc EXCEPT ![c] = "done"]
  /\ res' = [res EXCEPT ![c] =
               IF id = Undefined \/ id = 0 THEN Result("IdRequired")
               ELSE IF ~checkpointMode \/ sessionClient = 0
               THEN Result("NoActiveSession")
               ELSE Result("CheckpointNotFound")]
  /\ UNCHANGED <<role, sessionVars, loc, dbVars, ghostVars, probe, rejected>>

\* faulty variant: the rollback goes to the savepoint before the checkpoint
RollbackCallBefore(c, id) ==
  /\ Calls(c, [NoReq EXCEPT !.op = "rollback", !.id = id])
  /\ IF ~checkpointMode \/ sessionClient = 0
     THEN /\ Finish(c, Result("NoActiveSession"))
          /\ UNCHANGED <<loc, conn, lastRb>>
     ELSE IF id = Undefined \/ id = 0
     THEN /\ Finish(c, Result("IdRequired"))
          /\ UNCHANGED <<loc, conn, lastRb>>
     ELSE IF ~FindCheckpoint(id)
     THEN /\ Finish(c, Result("CheckpointNotFound"))
          /\ UNCHANGED <<loc, conn, lastRb>>
     ELSE /\ Send(sessionClient, Query(c, "ROLLBACK_TO", id - 1))
          /\ loc' = [loc EXCEPT ![c].on = sessionClient]
          /\ lastRb' = 0
          /\ Suspend(c, "rollback_wait")
  /\ UNCHANGED <<role, sessionVars, held, committed, nwrites,
                 cpTok, undone, lost, probe, rejected>>

\* faulty variant: checkpointId 0 is looked up like any other id
RollbackCallZeroLookedUp(c, id) ==
  /\ Calls(c, [NoReq EXCEPT !.op = "rollback", !.id = id])
  /\ IF ~checkpointMode \/ sessionClient = 0
     THEN /\ Finish(c, Result("NoActiveSession"))
          /\ UNCHANGED <<loc, conn, lastRb>>
     ELSE IF id = Undefined
     THEN /\ Finish(c, Result("IdRequired"))
          /\ UNCHANGED <<loc, conn, lastRb>>
     ELSE IF ~FindCheckpoint(id)
     THEN /\ Finish(c, Result("CheckpointNotFound"))
          /\ UNCHANGED <<loc, conn, lastRb>>
     ELSE /\ Send(sessionClient, Query(c, "ROLLBACK_TO", id))
          /\ loc' = [loc EXCEPT ![c].on = sessionClient]
          /\ lastRb' = 0
          /\ Suspend(c, "rollback_wait")
  /\ UNCHANGED <<role, sessionVars, held, committed, nwrites,
                 cpTok, undone, lost, probe, rejected>>

\* action === "rollback", up to the ROLLBACK TO SAVEPOINT
RollbackCall(c, id) ==
  /\ Calls(c, [NoReq EXCEPT !.op = "rollback", !.id = id])
  /\ IF ~checkpointMode \/ sessionClient = 0
     THEN /\ Finish(c, Result("NoActiveSession"))
          /\ UNCHANGED <<loc, conn, lastRb>>
     ELSE IF id = Undefined \/ id = 0
     THEN /\ Finish(c, Result("IdRequired"))
          /\ UNCHANGED <<loc, conn, lastRb>>
     ELSE IF ~FindCheckpoint(id)
     THEN /\ Finish(c, Result("CheckpointNotFound"))
          /\ UNCHANGED <<loc, conn, lastRb>>
     ELSE /\ Send(sessionClient, Query(c, "ROLLBACK_TO", id))
          /\ loc' = [loc EXCEPT ![c].on = sessionClient]
          /\ lastRb' = 0
          /\ Suspend(c, "rollback_wait")
  /\ UNCHANGED <<role, sessionVars, held, committed, nwrites,
                 cpTok, undone, lost, probe, rejected>>

\* faulty variant: the rollback rewinds the counter to the checkpoint
RollbackOkRewinds(c) ==
  /\ pc[c] = "rollback_wait" /\ Awaited(c)
  /\ Answer(c, <<>>)
  /\ checkpointHistory' = SelectSeq(checkpointHistory, LAMBDA cp : cp.id <= req[c].id)
  /\ checkpointCounter' = req[c].id
  /\ undone' = undone \cup {i \in HistoryIds : i > req[c].id}
  /\ lastRb' = IF undone = {} /\ checkpointMode THEN req[c].id ELSE 0
  /\ Finish(c, Result("ok"))
  /\ UNCHANGED <<role, sessionClient, checkpointMode,
                 req, loc, held, cpTok, lost, probe>>

\* ROLLBACK TO SAVEPOINT answered: the history is filtered
RollbackOk(c) ==
  /\ pc[c] = "rollback_wait" /\ Awaited(c)
  /\ Answer(c, <<>>)
  /\ checkpointHistory' = KeepUpTo(checkpointHistory, req[c].id)
  /\ undone' = undone \cup {i \in HistoryIds : i > req[c].id}
  /\ lastRb' = IF undone = {} /\ checkpointMode THEN req[c].id ELSE 0
  /\ Finish(c, Result("ok"))
  /\ UNCHANGED <<role, sessionClient, checkpointMode, checkpointCounter,
                 req, loc, held, cpTok, lost, probe>>

RollbackFail(c) ==
  /\ pc[c] = "rollback_wait" /\ Awaited(c)
  /\ Reject(c, <<>>)
  /\ Finish(c, DbError(AwaitedStmt(c)))
  /\ UNCHANGED <<role, sessionVars, req, loc, held, ghostVars, probe>>

\* action === "commit" / "discard", up to the COMMIT / ROLLBACK
EndCall(c, op, stmt, label) ==
  /\ Calls(c, [NoReq EXCEPT !.op = op])
  /\ IF ~checkpointMode \/ sessionClient = 0
     THEN /\ Finish(c, Result("NoActiveSession"))
          /\ UNCHANGED <<loc, conn>>
     ELSE /\ Send(sessionClient, Query(c, stmt, 0))
          /\ loc' = [loc EXCEPT ![c].on = sessionClient]
          /\ Suspend(c, label)
  /\ UNCHANGED <<role, sessionVars, held, committed, nwrites,
                 ghostVars, probe, rejected>>

CommitCall(c) == EndCall(c, "commit", "COMMIT", "commit_wait")

\* faulty variant: discard sends COMMIT
DiscardCallCommits(c) == EndCall(c, "discard", "COMMIT", "discard_wait")

DiscardCall(c) == EndCall(c, "discard", "ROLLBACK", "discard_wait")

\* faulty variant: the history and the counter outlive the session
EndSessionKeepsHistory(c) ==
  /\ sessionClient \in held
  /\ held' = held \ {sessionClient}
  /\ sessionClient' = 0
  /\ checkpointMode' = FALSE
  /\ UNCHANGED <<checkpointHistory, checkpointCounter, ghostVars>>
  /\ pc' = [pc EXCEPT ![c] = "done"]
  /\ res' = [res EXCEPT ![c] = [kind |-> "ok", data |-> <<>>, warned |-> FALSE]]

\* sessionClient.release(); sessionClient = null; checkpointMode = false;
\* checkpointHistory = []; checkpointCounter = 0
EndSession(c) ==
  IF sessionClient = 0
  THEN /\ Finish(c, Result("TypeError"))
       /\ UNCHANGED <<sessionVars, held, ghostVars>>
  ELSE IF sessionClient \notin held
  THEN /\ Finish(c, Result("ReleaseError"))
       /\ UNCHANGED <<sessionVars, held, ghostVars>>
  ELSE /\ held' = held \ {sessionClient}
       /\ sessionClient' = 0
       /\ checkpointMode' = FALSE
       /\ checkpointHistory' = <<>>
       /\ checkpointCounter' = 0
       /\ UNCHANGED ghostVars
       /\ Finish(c, Result("ok"))

CommitOk(c) ==
  /\ pc[c] = "commit_wait" /\ Awaited(c)
  /\ Answer(c, <<>>)
  /\ EndSession(c)
  /\ UNCHANGED <<role, req, loc, probe>>

\* faulty variant: a rejected COMMIT ends the session all the same
CommitFailEndsSession(c) ==
  /\ pc[c] = "commit_wait" /\ Awaited(c)
  /\ Reject(c, <<>>)
  /\ held' = held \ {sessionClient}
  /\ sessionClient' = 0
  /\ checkpointMode' = FALSE
  /\ checkpointHistory' = <<>>
  /\ checkpointCounter' = 0
  /\ lastRb' = 0
  /\ Finish(c, DbError(AwaitedStmt(c)))
  /\ UNCHANGED <<role, req, loc, cpTok, undone, lost, probe>>

CommitFail(c) ==
  /\ pc[c] = "commit_wait" /\ Awaited(c)
  /\ Reject(c, <<>>)
  /\ lastRb' = 0
  /\ Finish(c, DbError(AwaitedStmt(c)))
  /\ UNCHANGED <<role, sessionVars, req, loc, held, cpTok, undone, lost, probe>>

DiscardOk(c) ==
  /\ pc[c] = "discard_wait" /\ Awaited(c)
  /\ Answer(c, <<>>)
  /\ EndSession(c)
  /\ UNCHANGED <<role, req, loc, probe>>

DiscardFail(c) ==
  /\ pc[c] = "discard_wait" /\ Awaited(c)
  /\ Reject(c, <<>>)
  /\ lastRb' = 0
  /\ Finish(c, DbError(AwaitedStmt(c)))
  /\ UNCHANGED <<role, sessionVars, req, loc, held, cpTok, undone, lost, probe>>


(***************************************************************************)
(* The query tool.                                                         *)
(***************************************************************************)
\* writes the callers have sent and the database has not executed yet
PendingWrites ==
  Cardinality({d \in Callers :
                 /\ pc[d] \in {"query_session", "query_connect", "query_begin", "query_exec"}
                 /\ DbModifies(req[d].sql)})

\* checkPermissions, isWrite and the branch on checkpointMode && sessionClient
QueryCall(c, sql) ==
  /\ DbModifies(sql) => nwrites + PendingWrites < MaxWrites
  /\ Calls(c, [NoReq EXCEPT !.op = "query", !.sql = sql])
  /\ IF ~checkPermissions(sql, grantedPrivileges)
     THEN /\ Finish(c, Result("PermissionDenied"))
          /\ UNCHANGED <<loc, conn, lastRb>>
     ELSE IF checkpointMode /\ sessionClient # 0
     THEN /\ Send(sessionClient, Query(c, "SQL", sql))
          /\ loc' = [loc EXCEPT ![c].on = sessionClient]
          /\ lastRb' = 0
          /\ Suspend(c, "query_session")
     ELSE /\ Suspend(c, "query_connect")
          /\ UNCHANGED <<loc, conn, lastRb>>
  /\ UNCHANGED <<role, sessionVars, held, committed, nwrites,
                 cpTok, undone, lost, probe, rejected>>

\* faulty variant: the counter skips an id
IncrementedTwice(counter) == counter + 2

\* checkpointCounter++
Incremented(counter) == counter + 1

\* checkpoint mode: the statement answered; for a write, checkpointCounter++
\* and the SAVEPOINT is sent on whatever sessionClient is now
QuerySessionOk(c) ==
  /\ pc[c] = "query_session" /\ Awaited(c)
  /\ LET checkpointId == Incremented(checkpointCounter) IN
     IF ~isWrite(req[c].sql)
     THEN /\ Answer(c, <<>>)
          /\ Finish(c, Result("ok"))
          /\ UNCHANGED <<checkpointCounter, loc>>
     ELSE IF sessionClient = 0
     THEN /\ Answer(c, <<>>)
          /\ checkpointCounter' = checkpointId
          /\ Finish(c, Result("TypeError"))
          /\ UNCHANGED loc
     ELSE /\ Answer(c, <<sessionClient, Query(c, "SAVEPOINT", checkpointId)>>)
          /\ checkpointCounter' = checkpointId
          /\ loc' = [loc EXCEPT ![c].on = sessionClient,
                                ![c].checkpointId = checkpointId,
                                ![c].tok = nwrites']
          /\ Suspend(c, "query_savepoint")
  /\ UNCHANGED <<role, sessionClient, checkpointMode, checkpointHistory,
                 req, held, ghostVars, probe>>

\* faulty variant: the counter is incremented before the statement is awaited
QuerySessionFailCounted(c) ==
  /\ pc[c] = "query_session" /\ Awaited(c)
  /\ Reject(c, <<>>)
  /\ checkpointCounter' =
       IF isWrite(req[c].sql) THEN checkpointCounter + 1 ELSE checkpointCounter
  /\ pc' = [pc EXCEPT ![c] = "done"]
  /\ res' = [res EXCEPT ![c] = DbError("SQL")]
  /\ UNCHANGED <<role, sessionClient, checkpointMode, checkpointHistory,
                 req, loc, held, ghostVars, probe>>

QuerySessionFail(c) ==
  /\ pc[c] = "query_session" /\ Awaited(c)
  /\ Reject(c, <<>>)
  /\ Finish(c, DbError(AwaitedStmt(c)))
  /\ UNCHANGED <<role, sessionVars, req, loc, held, ghostVars, probe>>

\* faulty variant: the checkpoint records the command, not the SQL text
QuerySavepointOkCommand(c) ==
  /\ pc[c] = "query_savepoint" /\ Awaited(c)
  /\ Answer(c, <<>>)
  /\ checkpointHistory' =
       Append(checkpointHistory,
              [id |-> loc[c].checkpointId, query |-> Command(req[c].sql),
               timestamp |-> Now])
  /\ cpTok' = (loc[c].checkpointId :> loc[c].tok) @@ cpTok
  /\ pc' = [pc EXCEPT ![c] = "done"]
  /\ res' = [res EXCEPT ![c] = Result("ok")]
  /\ UNCHANGED <<role, sessionClient, checkpointMode, checkpointCounter,
                 req, loc, held, undone, lost, lastRb, probe>>

\* SAVEPOINT answered: checkpointHistory.push({id, query, timestamp})
QuerySavepointOk(c) ==
  /\ pc[c] = "query_savepoint" /\ Awaited(c)
  /\ Answer(c, <<>>)
  /\ checkpointHistory' =
       Append(checkpointHistory,
              [id |-> loc[c].checkpointId, query |-> req[c].sql, timestamp |-> Now])
  /\ cpTok' = (loc[c].checkpointId :> loc[c].tok) @@ cpTok
  /\ Finish(c, Result("ok"))
  /\ UNCHANGED <<role, sessionClient, checkpointMode, checkpointCounter,
                 req, loc, held, undone, lost, lastRb, probe>>

QuerySavepointFail(c) ==
  /\ pc[c] = "query_savepoint" /\ Awaited(c)
  /\ Reject(c, <<>>)
  /\ lost' = lost \cup {loc[c].checkpointId}
  /\ Finish(c, DbError(AwaitedStmt(c)))
  /\ UNCHANGED <<role, sessionVars, req, loc, held, cpTok, undone,
                 lastRb, probe>>

\* normal mode: const client = await pool.connect(); BEGIN [TRANSACTION READ ONLY]
QueryConnected(c, k) ==
  /\ pc[c] = "query_connect"
  /\ IdleClient(k)
  /\ held' = held \cup {k}
  /\ Send(k, Query(c, IF isReadOnly THEN "BEGIN_RO" ELSE "BEGIN", 0))
  /\ loc' = [loc EXCEPT ![c].on = k, ![c].client = k]
  /\ Suspend(c, "query_begin")
  /\ UNCHANGED <<role, sessionVars, req, committed, nwrites, ghostVars, probe, rejected>>

QueryConnectFail(c) ==
  /\ pc[c] = "query_connect"
  /\ Finish(c, Result("PoolError"))
  /\ UNCHANGED <<role, sessionVars, req, loc, dbVars, ghostVars, probe, rejected>>

\* one awaited query of the try block answered: the next one is sent
QueryNormalOk(c, label, next, nextLabel) ==
  /\ pc[c] = label /\ Awaited(c)
  /\ Answer(c, <<loc[c].client, next>>)
  /\ Suspend(c, nextLabel)
  /\ UNCHANGED <<role, sessionVars, req, loc, held, ghostVars, probe>>

\* one awaited query of the try block rejected: catch sends ROLLBACK
QueryNormalFail(c, label) ==
  /\ pc[c] = label /\ Awaited(c)
  /\ Reject(c, <<loc[c].client, Query(c, "ROLLBACK", 0)>>)
  /\ loc' = [loc EXCEPT ![c].error = AwaitedStmt(c)]
  /\ Suspend(c, "query_rollback")
  /\ UNCHANGED <<role, sessionVars, req, held, ghostVars, probe>>

QueryBeginOk(c) ==
  QueryNormalOk(c, "query_begin", Query(c, "SQL", req[c].sql), "query_exec")

QueryBeginFail(c) == QueryNormalFail(c, "query_begin")

\* faulty variant: the result is returned once the statement is answered,
\* without COMMIT
QueryExecOkNoCommit(c) ==
  /\ pc[c] = "query_exec" /\ Awaited(c)
  /\ Answer(c, <<>>)
  /\ held' = held \ {loc[c].client}
  /\ Finish(c, Result("ok"))
  /\ UNCHANGED <<role, sessionVars, req, loc, ghostVars, probe>>

QueryExecOk(c) ==
  QueryNormalOk(c, "query_exec", Query(c, "COMMIT", 0), "query_commit")

QueryExecFail(c) == QueryNormalFail(c, "query_exec")

\* faulty variant: the client is released by the success path only
ReleaseOnSuccess(c, r) ==
  /\ held' = IF r.kind = "ok" THEN held \ {loc[c].client} ELSE held
  /\ pc' = [pc EXCEPT ![c] = "done"]
  /\ res' = [res EXCEPT ![c] = r]

\* finally { client.release() }
Release(c, r) ==
  IF loc[c].client \in held
  THEN /\ held' = held \ {loc[c].client}
       /\ Finish(c, r)
  ELSE /\ held' = held
       /\ Finish(c, Result("ReleaseError"))

\* faulty variant: the call looks at the mode again when it has committed
QueryCommitOkCounts(c) ==
  /\ pc[c] = "query_commit" /\ Awaited(c)
  /\ Answer(c, <<>>)
  /\ Release(c, Result("ok"))
  /\ checkpointCounter' =
       IF checkpointMode THEN checkpointCounter + 1 ELSE checkpointCounter
  /\ UNCHANGED <<role, sessionClient, checkpointMode, checkpointHistory,
                 req, loc, ghostVars, probe>>

\* COMMIT answered: the result is returned, the client released
QueryCommitOk(c) ==
  /\ pc[c] = "query_commit" /\ Awaited(c)
  /\ Answer(c, <<>>)
  /\ Release(c, Result("ok"))
  /\ UNCHANGED <<role, sessionVars, req, loc, ghostVars, probe>>

\* faulty variant: a rejected COMMIT is not noticed
QueryCommitFailIgnored(c) ==
  /\ pc[c] = "query_commit" /\ Awaited(c)
  /\ Reject(c, <<>>)
  /\ Release(c, Result("ok"))
  /\ UNCHANGED <<role, sessionVars, req, loc, ghostVars, probe>>

QueryCommitFail(c) == QueryNormalFail(c, "query_commit")

\* the ROLLBACK of the catch block answered: the error is thrown again
QueryRollbackOk(c) ==
  /\ pc[c] = "query_rollback" /\ Awaited(c)
  /\ Answer(c, <<>>)
  /\ Release(c, DbError(loc[c].error))
  /\ UNCHANGED <<role, sessionVars, req, loc, ghostVars, probe>>

\* faulty variant: the error of the ROLLBACK is thrown in place of the first one
QueryRollbackFailMasks(c) ==
  /\ pc[c] = "query_rollback" /\ Awaited(c)
  /\ Reject(c, <<>>)
  /\ held' = held \ {loc[c].client}
  /\ pc' = [pc EXCEPT ![c] = "done"]
  /\ res' = [res EXCEPT ![c] = [kind |-> "DbError", data |-> <<"ROLLBACK">>,
                                warned |-> FALSE]]
  /\ UNCHANGED <<role, sessionVars, req, loc, ghostVars, probe>>

\* console.warn("Could not roll back transaction:", rollbackError)
Warned(r) == [r EXCEPT !.warned = TRUE]

\* the ROLLBACK of the catch block rejected: a warning, the error is thrown again
QueryRollbackFail(c) ==
  /\ pc[c] = "query_rollback" /\ Awaited(c)
  /\ Reject(c, <<>>)
  /\ Release(c, Warned(DbError(loc[c].error)))
  /\ UNCHANGED <<role, sessionVars, req, loc, ghostVars, probe>>

\* the response has gone to the caller, who may call again; the history
\* variables of a session are dropped with the response that ended it
Return(c) ==
  /\ pc[c] = "done"
  /\ pc' = [pc EXCEPT ![c] = "idle"]
  /\ req' = [req EXCEPT ![c] = NoReq]
  /\ res' = [res EXCEPT ![c] = NoRes]
  /\ loc' = [loc EXCEPT ![c] = NoLoc]
  /\ IF req[c].op \in {"commit", "discard"} /\ res[c].kind = "ok"
     THEN cpTok' = <<>> /\ undone' = {} /\ lost' = {} /\ lastRb' = 0
     ELSE UNCHANGED ghostVars
  /\ rejected' = rejected \ {c}
  /\ UNCHANGED <<role, sessionVars, dbVars, probe>>

(***************************************************************************)
(* Specifications.                                                         *)
(***************************************************************************)
Call(c) ==
  \/ StartCall(c)
  \/ ListCall(c)
  \/ \E id \in CheckpointIds : RollbackCall(c, id)
  \/ CommitCall(c)
  \/ DiscardCall(c)
  \/ \E sql \in SqlTexts : QueryCall(c, sql)

Step(c) ==
  \/ \E k \in Conns : StartConnected(c, k)
  \/ StartConnectFail(c)
  \/ StartBeginOk(c)
  \/ StartBeginFail(c)
  \/ RollbackOk(c)
  \/ RollbackFail(c)
  \/ CommitOk(c)
  \/ CommitFail(c)
  \/ DiscardOk(c)
  \/ DiscardFail(c)
  \/ QuerySessionOk(c)
  \/ QuerySessionFail(c)
  \/ QuerySavepointOk(c)
  \/ QuerySavepointFail(c)
  \/ \E k \in Conns : QueryConnected(c, k)
  \/ QueryConnectFail(c)
  \/ QueryBeginOk(c)
  \/ QueryBeginFail(c)
  \/ QueryExecOk(c)
  \/ QueryExecFail(c)
  \/ QueryCommitOk(c)
  \/ QueryCommitFail(c)
  \/ QueryRollbackOk(c)
  \/ QueryRollbackFail(c)
  \/ Return(c)

\* no call is being served
Quiet == \A d \in Callers : pc[d] = "idle"

\* one caller, who makes a call when the call before has returned
Next ==
  /\ \E c \in {Min(Callers)} : (Quiet /\ Call(c)) \/ Step(c)
  /\ UNCHANGED ncalls

Spec == Init /\ [][Next]_vars

\* calls overlap: a handler suspended at an await lets any other run
NextConc ==
  \E c \in Callers :
    \/ ncalls < MaxCalls /\ Call(c) /\ ncalls' = ncalls + 1
    \/ Step(c) /\ UNCHANGED ncalls

SpecConc == Init /\ [][NextConc]_vars

\* no session is ever started: query calls overlap, each on a client of its own
NextIdle ==
  \E c \in Callers :
    \/ /\ ncalls < MaxIdleCalls
       /\ \E sql \in IdleTexts : QueryCall(c, sql)
       /\ ncalls' = ncalls + 1
    \/ /\ \/ \E k \in Conns : QueryConnected(c, k)
          \/ QueryConnectFail(c)
          \/ QueryBeginOk(c)
          \/ QueryBeginFail(c)
          \/ QueryExecOk(c)
          \/ QueryExecFail(c)
          \/ QueryCommitOk(c)
          \/ QueryCommitFail(c)
          \/ QueryRollbackOk(c)
          \/ QueryRollbackFail(c)
          \/ Return(c)
       /\ UNCHANGED ncalls

SpecIdle == Init /\ [][NextIdle]_vars


(***************************************************************************)
(* The permission gate on its own: one text, built from a lead, a word in  *)
(* some letter case and a tail, is classified and checked against every    *)
(* role.                                                                   *)
(***************************************************************************)
KnownWords ==
  {kwSELECT, kwINSERT, kwUPDATE, kwDELETE, kwTRUNCATE, kwCREATE, kwALTER,
   kwDROP, kwWITH, kwSHOW, kwEXPLAIN, kwRENAME}

ProbeWords == KnownWords \cup {kwGRANT, kwSELECT \o <<"*">>, <<>>}

ProbeLeads == {<<>>, <<" ">>, <<"\n", "\t">>, <<";">>}

ProbeTails ==
  {<<>>, <<" ", "x">>, <<";">> \o kwDROP, <<"\n">> \o toLowerCase(kwINSERT) \o <<" ">>}

ProbeStyles == {"upper", "lower", "mixed"}

Styled(word, style) ==
  CASE style = "upper" -> word
    [] style = "lower" -> toLowerCase(word)
    [] style = "mixed" ->
         [i \in 1..Len(word) |-> IF i = 1 THEN word[i] ELSE LowerChar(word[i])]

\* texts whose first token is the word (or is empty, after a leading semicolon):
\* an empty word is followed by nothing or by a semicolon
Probes ==
  {pr \in {[NoProbe EXCEPT !.lead = l, !.word = w, !.tail = t,
                           !.sql = l \o Styled(w, st) \o t] :
             l \in ProbeLeads, w \in ProbeWords, st \in ProbeStyles,
             t \in ProbeTails} :
     pr.word = <<>> => (pr.tail = <<>> \/ Head(pr.tail) = ";")}

InitGate == InitMachine /\ probe \in Probes

GateCheck ==
  /\ ~probe.done
  /\ probe' = [probe EXCEPT
       !.done = TRUE,
       !.command = Command(probe.sql),
       !.required = RequiredPrivilege(Command(probe.sql)),
       !.allowed = [r \in Roles |-> checkPermissions(probe.sql, databaseRoles[r])],
       !.isWrite = isWrite(probe.sql)]
  /\ UNCHANGED <<role, sessionVars, pc, req, res, loc, dbVars, ghostVars, rejected>>

NextGate == GateCheck /\ UNCHANGED ncalls

SpecGate == InitGate /\ [][NextGate]_vars


(***************************************************************************)
(* Properties.                                                             *)
(***************************************************************************)
GrantSet(r) == Range(databaseRoles[r])

RoleRank == [read |-> 1, insert |-> 2, write |-> 3, admin |-> 4]

\* the step in which caller c makes a call of the tool action op
IsCall(c, op) == pc[c] = "idle" /\ pc'[c] # "idle" /\ req'[c].op = op

\* the step in which the handler of c, suspended at label, returns or throws
Completes(c, label, kind) ==
  pc[c] = label /\ pc'[c] = "done" /\ res'[c].kind = kind

Returned(c, op, kind) ==
  pc[c] = "done" /\ req[c].op = op /\ res[c].kind = kind

\* C1: a query whose required privilege is not granted to the role fails with
\* PermissionDenied in the step that receives it, in Idle and in Active mode:
\* no client is taken from the pool, no statement is queued on any client,
\* the database is untouched and mode, session client, counter and history
\* are unchanged.
C1_DeniedBeforeDatabase ==
  [][\A c \in Callers :
       (IsCall(c, "query")
        /\ RequiredPrivilege(Command(req'[c].sql)) \notin GrantSet(role))
       => /\ pc'[c] = "done"
          /\ res'[c].kind = "PermissionDenied"
          /\ UNCHANGED <<sessionVars, dbVars>>]_vars

C1_DeniedInActiveSession ==
  \E c \in Callers :
    /\ Returned(c, "query", "PermissionDenied")
    /\ checkpointMode
    /\ checkpointHistory # <<>>

\* C2: the grants grow with the role, read to insert to write to admin, and
\* a text the gate accepts under a role is accepted under every higher role.
C2_RoleMonotonic ==
  /\ \A r1, r2 \in Roles :
       RoleRank[r1] <= RoleRank[r2] => GrantSet(r1) \subseteq GrantSet(r2)
  /\ probe.done =>
       \A r1, r2 \in Roles :
         (RoleRank[r1] <= RoleRank[r2] /\ probe.allowed[r1]) => probe.allowed[r2]

C2_AcceptedFromInsertUp ==
  /\ probe.done
  /\ ~probe.allowed["read"]
  /\ probe.allowed["insert"] /\ probe.allowed["write"] /\ probe.allowed["admin"]

\* the first token of the probed text, in upper case, as the text was built
ProbeToken ==
  IF \E i \in 1..Len(probe.lead) : probe.lead[i] = ";" THEN <<>> ELSE probe.word

Classified(token) ==
  IF token \in {kwSELECT, kwWITH, kwSHOW, kwEXPLAIN} THEN kwSELECT
  ELSE IF token = kwRENAME THEN kwALTER
  ELSE token

\* C3: the required privilege is decided by the first token of the trimmed
\* text alone, whatever its letter case and whatever follows it: SELECT, WITH,
\* SHOW and EXPLAIN require SELECT, RENAME requires ALTER, any other token
\* (the empty one included) requires itself.
C3_ClassifiesFirstToken ==
  probe.done => probe.required = Classified(ProbeToken)

C3_LowerCaseRenameWithTail ==
  /\ probe.done
  /\ probe.sql = <<" ">> \o toLowerCase(kwRENAME) \o <<";">> \o kwDROP
  /\ probe.required = kwALTER

C5_RollbackThenCommit ==
  [][\A c \in Callers :
       (Completes(c, "commit_wait", "ok") /\ lastRb > 0)
       => /\ HistoryIds = {i \in DOMAIN cpTok : i <= lastRb}
          /\ \A i \in DOMAIN cpTok :
               /\ i <= lastRb => cpTok[i] \in committed'
               /\ i > lastRb => cpTok[i] \notin committed']_vars

C5_InsertKeptUpdateUndone ==
  \E c \in Callers :
    /\ Returned(c, "commit", "ok")
    /\ lastRb = 1
    /\ DOMAIN cpTok = {1, 2}
    /\ cpTok[1] \in committed
    /\ cpTok[2] \notin committed

\* C6: a rollback(K) that succeeds leaves the entries with id <= K, a prefix
\* of the history, in their order, and the session Active on the same client;
\* a later rollback, in the same session, to an id that a rollback removed
\* fails with CheckpointNotFound.
C6_RollbackTruncates ==
  [][\A c \in Callers :
       /\ Completes(c, "rollback_wait", "ok")
          => /\ \E n \in 0..Len(checkpointHistory) :
                  /\ checkpointHistory' = SubSeq(checkpointHistory, 1, n)
                  /\ \A i \in 1..Len(checkpointHistory) :
                       (i <= n) <=> (checkpointHistory[i].id <= req[c].id)
             /\ checkpointMode' /\ sessionClient' = sessionClient
             /\ sessionClient' # 0
       /\ (IsCall(c, "rollback") /\ checkpointMode /\ req'[c].id \in undone)
          => /\ pc'[c] = "done"
             /\ res'[c].kind = "CheckpointNotFound"]_vars

C6_RollbackToRemovedIdFails ==
  \E c \in Callers :
    /\ Returned(c, "rollback", "CheckpointNotFound")
    /\ checkpointMode
    /\ req[c].id \in undone

\* C7, as the claim has it: whenever no call is being served, the history
\* is as long as the counter (stated for the sessions in which no SAVEPOINT
\* has failed).
C7_LengthEqualsCounter ==
  (Quiet /\ lost = {}) => Len(checkpointHistory) = checkpointCounter

\* C7, amended: the history is never longer than the counter.  While the
\* session is Idle they are equal; in an Active session, when no write is
\* between its increment of the counter and its push, the counter exceeds
\* the length of the history by the number of ids that rollbacks have
\* removed or whose SAVEPOINT failed.
C7_LengthWithinCounter ==
  /\ Len(checkpointHistory) <= checkpointCounter
  /\ ~checkpointMode => Len(checkpointHistory) = checkpointCounter
  /\ (checkpointMode /\ \A c \in Callers : pc[c] # "query_savepoint")
     => checkpointCounter = Len(checkpointHistory) + Cardinality(undone \cup lost)

C7_ShorterAfterRollback ==
  /\ Quiet
  /\ checkpointMode
  /\ undone # {}
  /\ Len(checkpointHistory) < checkpointCounter

\* C8: in an Active session in which no rollback has removed an entry, the
\* ids of the history are 1..N in order, N the number of entries.
C8_IdsAreOneToN ==
  (checkpointMode /\ undone = {})
  => \A i \in 1..Len(checkpointHistory) : checkpointHistory[i].id = i

\* C9: when a commit or discard succeeds the session is Idle, its client has
\* gone back to the pool (it was checked out, and is the one client released),
\* the history is empty and the counter 0; and a list made while the session
\* is Idle reports that there is no session.
C9_EndIsTerminal ==
  [][\A c \in Callers :
       /\ (Completes(c, "commit_wait", "ok") \/ Completes(c, "discard_wait", "ok"))
          => /\ ~checkpointMode' /\ sessionClient' = 0
             /\ checkpointHistory' = <<>> /\ checkpointCounter' = 0
             /\ sessionClient \in held
             /\ held' = held \ {sessionClient}
       /\ (IsCall(c, "list") /\ ~checkpointMode)
          => /\ pc'[c] = "done"
             /\ res'[c].kind = "NoSession"
             /\ UNCHANGED <<sessionVars, dbVars>>]_vars

C9_CommittedSessionEnded ==
  \E c \in Callers :
    /\ Returned(c, "commit", "ok")
    /\ DOMAIN cpTok # {}
    /\ ~checkpointMode
    /\ held = {}

\* C10: a start made while the session is Active returns at once: no client
\* is taken from the pool, no statement is queued, and the session client,
\* the counter and the history are as they were.
C10_StartWhileActive ==
  [][\A c \in Callers :
       (IsCall(c, "start") /\ checkpointMode)
       => /\ pc'[c] = "done"
          /\ res'[c].kind = "AlreadyActive"
          /\ UNCHANGED <<sessionVars, dbVars>>]_vars

C10_SecondStartKeepsHistory ==
  \E c \in Callers :
    /\ Returned(c, "start", "AlreadyActive")
    /\ checkpointMode
    /\ checkpointHistory # <<>>

\* clients that the normal-mode query calls in flight have checked out
NormalLabels == {"query_begin", "query_exec", "query_commit", "query_rollback"}

QueryOwned == {loc[c].client : c \in {d \in Callers : pc[d] \in NormalLabels}}

\* clients that start has checked out: the checked-out ones no query call owns
StartOwned == held \ QueryOwned

\* C11: whatever the interleaving of the start calls, at most one client that
\* start took from the pool has a session transaction open on it (so at most
\* one dedicated connection with a session behind it is held).
C11_SingleSession ==
  Cardinality({k \in StartOwned : conn[k].tx # "none"}) <= 1


\* C12: while query calls overlap in Idle mode, the clients checked out are
\* exactly the clients of the calls that are between their pool.connect() and
\* their return, one client per call; no call releases a client that is not
\* checked out; so when every call has returned, whatever its exit path, no
\* client is checked out.
C12_ScopedRelease ==
  /\ held = QueryOwned
  /\ \A c, d \in Callers :
       (c # d /\ pc[c] \in NormalLabels /\ pc[d] \in NormalLabels)
       => loc[c].client # loc[d].client
  /\ \A c \in Callers : res[c].kind # "ReleaseError"
  /\ (\A c \in Callers : pc[c] \in {"idle", "done"}) => held = {}

C12_AllPathsReleased ==
  \E c, d \in Callers :
    /\ Returned(c, "query", "DbError") /\ res[c].data = <<"COMMIT">>
    /\ Returned(d, "query", "ok")
    /\ loc[c].client # 0 /\ loc[d].client # 0
    /\ held = {}


\* where the handlers of the checkpoint tool are suspended
CheckpointLabels ==
  {"start_connect", "start_begin", "rollback_wait", "commit_wait", "discard_wait"}

\* C13: whenever the session is Idle and no checkpoint operation is in flight,
\* no client that start took from the pool is still checked out.
C13_NoDedicatedLeak ==
  (~checkpointMode /\ \A c \in Callers : pc[c] \notin CheckpointLabels)
  => StartOwned = {}


\* the statement whose failure takes a normal-mode call out of its try block
TryStmts ==
  [query_begin |-> {"BEGIN", "BEGIN_RO"}, query_exec |-> {"SQL"},
   query_commit |-> {"COMMIT"}]

\* C14: in Idle mode a call leaves its try block either by returning its
\* result after COMMIT or, when BEGIN, the statement or COMMIT is rejected,
\* by queueing ROLLBACK on its own client, which stays checked out; the call
\* ends when that ROLLBACK has been answered or rejected, the client is
\* released then, and what the caller gets is the error of the statement
\* that was rejected first, with a warning and nothing else added when the
\* ROLLBACK was rejected too.
C14_RollbackThenOriginalError ==
  [][\A c \in Callers :
       LET k == loc[c].client IN
       /\ (pc[c] \in DOMAIN TryStmts /\ pc'[c] = "done")
          => pc[c] = "query_commit" /\ res'[c] = Result("ok")
       /\ (pc[c] \in DOMAIN TryStmts /\ pc'[c] = "query_rollback")
          => /\ AwaitedStmt(c) \in TryStmts[pc[c]]
             /\ loc'[c].error = AwaitedStmt(c)
             /\ conn'[k].q # <<>>
             /\ conn'[k].q[Len(conn'[k].q)] = Query(c, "ROLLBACK", 0)
             /\ k \in held'
       /\ (pc[c] = "query_rollback" /\ pc'[c] # "query_rollback")
          => /\ pc'[c] = "done"
             /\ Head(conn[k].q) = Query(c, "ROLLBACK", 0)
             /\ k \in held /\ held' = held \ {k}
             /\ res'[c].kind = "DbError"
             /\ res'[c].data = <<loc[c].error>>
             /\ loc[c].error \in {"BEGIN", "BEGIN_RO", "SQL", "COMMIT"}]_vars

C14_CommitErrorKeptWithWarning ==
  \E c \in Callers :
    /\ Returned(c, "query", "DbError")
    /\ res[c].data = <<"COMMIT">>
    /\ res[c].warned
    /\ loc[c].client \notin held


\* C15: a rollback (whatever its checkpointId, given or not), a commit or a
\* discard that arrives while the session is Idle fails with NoActiveSession
\* in the step that receives it: nothing is queued on any client, no client
\* is taken from or given back to the pool, the database is untouched, and
\* mode, session client, counter and history are unchanged.
C15_NoActiveSession ==
  [][\A c \in Callers :
       ((IsCall(c, "rollback") \/ IsCall(c, "commit") \/ IsCall(c, "discard"))
        /\ ~checkpointMode)
       => /\ pc'[c] = "done"
          /\ res'[c].kind = "NoActiveSession"
          /\ UNCHANGED <<sessionVars, dbVars>>]_vars

C15_RollbackWithoutIdWhileIdle ==
  \E c \in Callers :
    /\ Returned(c, "rollback", "NoActiveSession")
    /\ req[c].id = Undefined
    /\ ~checkpointMode
    /\ committed # {}


\* C16: in an Active session a rollback whose checkpointId is given and is
\* the id of no entry of the history has failed with CheckpointNotFound when
\* it returns, with nothing queued on the session's client.
C16_AbsentIdNotFound ==
  \A c \in Callers :
    (/\ pc[c] = "done" /\ req[c].op = "rollback"
     /\ checkpointMode /\ sessionClient # 0
     /\ req[c].id # Undefined
     /\ req[c].id \notin HistoryIds)
    => /\ res[c].kind = "CheckpointNotFound"
       /\ conn[sessionClient].q = <<>>


\* C17: a statement whose command is SELECT, WITH, SHOW or EXPLAIN, received
\* in an Active session, is queued on the session's client and on no other,
\* with no client taken from the pool; when it has been answered the call
\* returns with no SAVEPOINT or other statement queued, and the counter, the
\* history, the mode and the session's client are as they were throughout.
C17_ReadsLeaveHistory ==
  [][\A c \in Callers :
       /\ (/\ IsCall(c, "query")
           /\ Includes(readCommands, Command(req'[c].sql))
           /\ checkpointMode /\ sessionClient # 0)
          => /\ pc'[c] \in {"query_session", "done"}
             /\ pc'[c] = "done" => res'[c].kind = "PermissionDenied"
             /\ pc'[c] = "query_session" =>
                  conn' = [conn EXCEPT ![sessionClient].q =
                             Append(@, Query(c, "SQL", req'[c].sql))]
             /\ UNCHANGED <<sessionVars, held>>
       /\ (/\ pc[c] = "query_session" /\ pc'[c] # "query_session"
           /\ Includes(readCommands, Command(req[c].sql)))
          => /\ pc'[c] = "done"
             /\ conn' = [conn EXCEPT ![loc[c].on].q = Tail(@)]
             /\ UNCHANGED <<sessionVars, held>>]_vars

C17_WithInSessionNoCheckpoint ==
  \E c \in Callers :
    /\ Returned(c, "query", "ok")
    /\ req[c].sql = sqlWith
    /\ checkpointMode /\ loc[c].on = sessionClient
    /\ Len(checkpointHistory) = 1 /\ checkpointCounter = 1


\* C18: in an Active session, when the statement of a write call has been
\* executed the counter goes up by one and SAVEPOINT checkpoint_<counter>,
\* named by the new value, is queued on the session's client, behind the
\* statement, with the history as it was; when that SAVEPOINT has been
\* executed and the call returns, the history has one more entry, at its
\* end, whose id is that counter value and whose query is the text the
\* caller sent, the savepoint of that name exists, and the session is
\* Active on the same client.
C18_WriteTransition ==
  [][\A c \in Callers :
       /\ (pc[c] = "query_session" /\ isWrite(req[c].sql)
           /\ pc'[c] # "query_session")
          => \/ /\ pc'[c] = "done" /\ res'[c] = DbError("SQL")
                /\ UNCHANGED sessionVars
             \/ /\ pc'[c] = "query_savepoint"
                /\ Head(conn[sessionClient].q) = Query(c, "SQL", req[c].sql)
                /\ checkpointCounter' = checkpointCounter + 1
                /\ conn'[sessionClient].q =
                     Append(Tail(conn[sessionClient].q),
                            Query(c, "SAVEPOINT", checkpointCounter'))
                /\ UNCHANGED <<sessionClient, checkpointMode, checkpointHistory>>
       /\ (pc[c] = "query_savepoint" /\ pc'[c] = "done" /\ res'[c].kind = "ok")
          => /\ Len(checkpointHistory') = Len(checkpointHistory) + 1
             /\ SubSeq(checkpointHistory', 1, Len(checkpointHistory))
                  = checkpointHistory
             /\ checkpointHistory'[Len(checkpointHistory')].id = checkpointCounter
             /\ checkpointHistory'[Len(checkpointHistory')].query = req[c].sql
             /\ HasSavepoint(conn'[sessionClient], checkpointCounter)
             /\ checkpointCounter > 0
             /\ UNCHANGED <<sessionClient, checkpointMode, checkpointCounter>>
             /\ checkpointMode /\ sessionClient # 0]_vars

C18_SecondWriteIsCheckpointTwo ==
  \E c \in Callers :
    /\ Returned(c, "query", "ok")
    /\ req[c].sql = sqlUpdate
    /\ checkpointMode /\ checkpointCounter = 2
    /\ Len(checkpointHistory) = 2
    /\ checkpointHistory[2].id = 2
    /\ checkpointHistory[2].query = sqlUpdate


\* the savepoints that exist on client k
SavepointIds(k) == {conn[k].sp[i].id : i \in 1..Len(conn[k].sp)}

\* C19: in every state of an Active session the ids of the history increase
\* along it and are exactly the ids K whose savepoint checkpoint_K exists on
\* the session's client.
C19_HistoryMatchesSavepoints ==
  (checkpointMode /\ sessionClient # 0)
  => /\ \A i, j \in 1..Len(checkpointHistory) :
          i < j => checkpointHistory[i].id < checkpointHistory[j].id
     /\ HistoryIds = SavepointIds(sessionClient)


\* C20: when the statement of a query call is rejected on the session's
\* client, the caller gets the error of that statement; nothing is queued on
\* the client in its place (no COMMIT, no ROLLBACK, no SAVEPOINT), so the
\* transaction, its writes and its savepoints are as the statement found
\* them; the counter and the history are unchanged and the session is
\* Active on the same client, still checked out.
C20_SessionStatementFailure ==
  [][\A c \in Callers :
       (pc[c] = "query_session" /\ pc'[c] = "done" /\ res'[c].kind # "ok")
       => /\ res'[c] = DbError("SQL")
          /\ Head(conn[sessionClient].q) = Query(c, "SQL", req[c].sql)
          /\ conn' = [conn EXCEPT ![sessionClient].q = Tail(@)]
          /\ UNCHANGED <<sessionVars, held, committed>>
          /\ checkpointMode /\ sessionClient \in held]_vars

C20_FailedWriteKeepsSession ==
  \E c \in Callers :
    /\ Returned(c, "query", "DbError")
    /\ res[c].data = <<"SQL">>
    /\ isWrite(req[c].sql)
    /\ checkpointMode /\ loc[c].on = sessionClient
    /\ conn[sessionClient].tx = "rw"
    /\ Len(checkpointHistory) = 1 /\ checkpointCounter = 1

\* C21: while a query call that found the session Idle awaits its statement
\* or its COMMIT, the transaction open on the call's own client is read-only
\* when the role is read and read-write when the role is insert, write or
\* admin; the BEGIN the call has queued is the READ ONLY one exactly under
\* role read.
C21_ReadOnlyIffRead ==
  \A c \in Callers :
    LET k == loc[c].client IN
    /\ pc[c] \in {"query_exec", "query_commit"}
         => conn[k].tx = (IF role = "read" THEN "ro" ELSE "rw")
    /\ pc[c] = "query_begin"
         => /\ conn[k].q # <<>>
            /\ Head(conn[k].q).kind = (IF role = "read" THEN "BEGIN_RO" ELSE "BEGIN")

C21_InsertRoleReadWrite ==
  \E c \in Callers :
    /\ role = "insert"
    /\ ~checkpointMode
    /\ pc[c] = "query_commit"
    /\ req[c].sql = sqlInsert
    /\ conn[loc[c].client].tx = "rw"
    /\ conn[loc[c].client].log # <<>>

\* C22: a query call received while the session is Idle whose statement the
\* role may send goes to the pool (under role insert an INSERT does, a DELETE
\* is denied on the spot with nothing touched); no step of such a call
\* changes mode, session client, counter or history, and the session stays
\* Idle; the call returns success only in the step in which its COMMIT is
\* answered, and for a write that step makes the one write of the call's
\* transaction durable, ends the transaction and checks the client back in.
C22_IdleWriteAutoCommits ==
  [][\A c \in Callers :
       LET k == loc[c].client IN
       /\ (IsCall(c, "query") /\ role = "insert" /\ req'[c].sql = sqlDelete)
            => /\ Completes(c, "idle", "PermissionDenied")
               /\ UNCHANGED <<sessionVars, dbVars>>
       /\ (IsCall(c, "query") /\ role = "insert" /\ req'[c].sql = sqlInsert
             /\ ~checkpointMode)
            => pc'[c] = "query_connect"
       /\ (pc[c] \in NormalLabels \cup {"query_connect"} /\ pc'[c] # pc[c])
            => /\ ~checkpointMode /\ ~checkpointMode'
               /\ UNCHANGED sessionVars
       /\ (pc[c] \in NormalLabels \cup {"query_connect"}
             /\ pc'[c] = "done" /\ res'[c].kind = "ok")
            => /\ pc[c] = "query_commit"
               /\ Head(conn[k].q).kind = "COMMIT"
               /\ c \notin rejected'
               /\ conn'[k].tx = "none"
               /\ k \in held /\ k \notin held'
               /\ DbModifies(req[c].sql)
                    => /\ Len(conn[k].log) = 1
                       /\ conn[k].log[1] \notin committed
                       /\ committed' = committed \cup {conn[k].log[1]}]_vars

C22_InsertCommittedWhileIdle ==
  \E c \in Callers :
    /\ role = "insert"
    /\ Returned(c, "query", "ok")
    /\ req[c].sql = sqlInsert
    /\ ~checkpointMode /\ sessionClient = 0
    /\ checkpointCounter = 0 /\ checkpointHistory = <<>>
    /\ nwrites \in committed
    /\ held = {}

SessionLabels == {"query_session", "query_savepoint"}

\* C23: whatever the interleaving, every query call that found the session
\* Active and awaits a statement awaits it on the client that is the
\* session's client now, the session still being Active, so all such calls
\* share one client, and none of them has a client of its own from the pool;
\* the query calls that found the session Idle each hold a client of their
\* own, no two the same and none the session's.
C23_Routing ==
  /\ \A c \in Callers :
       pc[c] \in SessionLabels
       => /\ checkpointMode
          /\ loc[c].on = sessionClient
          /\ loc[c].client = 0
  /\ Cardinality({loc[c].on : c \in {d \in Callers : pc[d] \in SessionLabels}}) <= 1
  /\ \A c, d \in Callers :
       (c # d /\ pc[c] \in NormalLabels /\ pc[d] \in NormalLabels)
       => loc[c].client # loc[d].client
  /\ \A c \in Callers :
       pc[c] \in NormalLabels
       => loc[c].client \in held /\ loc[c].on = loc[c].client

\* C24: while the session is Active and its transaction is open, the durable
\* state changes in no step but the one in which a commit succeeds, so it
\* stays what it was before start.  The step in which a discard succeeds
\* leaves the durable state as it is, with none of the session's checkpointed
\* writes in it, and ends the transaction.  The step in which a commit
\* succeeds on the open transaction of a session none of whose savepoints
\* failed adds to the durable state exactly the writes of the checkpoints
\* still in the history, and none of a checkpoint that a rollback removed.
C24_DiscardUndoesCommitKeeps ==
  [][\A c \in Callers :
       LET k == sessionClient
           tokens(ids) == {cpTok[i] : i \in ids \cap DOMAIN cpTok}
       IN
       /\ (checkpointMode /\ k # 0 /\ conn[k].tx # "none" /\ committed' # committed)
            => \E d \in Callers : Completes(d, "commit_wait", "ok")
       /\ Completes(c, "discard_wait", "ok")
            => /\ committed' = committed
               /\ tokens(DOMAIN cpTok) \cap committed' = {}
               /\ conn'[k].tx = "none" /\ conn'[k].log = <<>>
               /\ ~checkpointMode'
       /\ (Completes(c, "commit_wait", "ok") /\ conn[k].tx # "none" /\ lost = {})
            => /\ committed' = committed \cup tokens(HistoryIds)
               /\ tokens(HistoryIds) \cap committed = {}
               /\ tokens(undone) \cap committed' = {}
               /\ HistoryIds \cup undone = DOMAIN cpTok]_vars

C24_DiscardAfterWritesAndRollback ==
  \E c \in Callers :
    /\ Returned(c, "discard", "ok")
    /\ DOMAIN cpTok = {1, 2}
    /\ undone = {2}
    /\ committed = {1}
    /\ nwrites = 3

C27_ListReadsOnly ==
  [][\A c \in Callers :
       IsCall(c, "list")
       => /\ pc'[c] = "done"
          /\ UNCHANGED <<sessionVars, dbVars>>
          /\ c \notin rejected'
          /\ ~checkpointMode => res'[c] = Result("NoSession")
          /\ (checkpointMode /\ checkpointHistory = <<>>)
               => res'[c] = Result("NoCheckpoints")
          /\ (checkpointMode /\ checkpointHistory # <<>>)
               => /\ res'[c].kind = "list"
                  /\ Len(res'[c].data) = Len(checkpointHistory)
                  /\ \A i \in 1..Len(checkpointHistory) :
                       LET cp == checkpointHistory[i] IN
                       res'[c].data[i] =
                         <<cp.id, ".", " ">> \o cp.query
                           \o <<" ", "(", cp.timestamp, ")">>]_vars

C27_TwoCheckpointsListed ==
  \E c \in Callers :
    /\ Returned(c, "list", "list")
    /\ Len(res[c].data) = 2
    /\ Head(res[c].data[1]) = 1 /\ Head(res[c].data[2]) = 2
    /\ checkpointMode /\ Len(checkpointHistory) = 2

\* C28: a query call that has returned success had none of its awaited
\* statements rejected by the database: in Idle mode its transaction is
\* ended by the answered COMMIT, its client is back in the pool and the write
\* it made is durable; in Active mode the write it made is in the session's
\* transaction.  A query call of which the database rejected a statement has
\* returned an error that names the rejected statement, and a call in its
\* catch block has the rejected statement recorded.
C28_SuccessOnlyIfExecuted ==
  \A c \in Callers :
    /\ (pc[c] = "done" /\ req[c].op = "query")
         => /\ res[c].kind = "ok"
                 => /\ c \notin rejected
                    /\ loc[c].client # 0
                         => /\ conn[loc[c].client].tx = "none"
                            /\ loc[c].client \notin held
                            /\ DbModifies(req[c].sql) => nwrites \in committed
                    /\ (loc[c].client = 0 /\ DbModifies(req[c].sql))
                         => /\ loc[c].tok = nwrites
                            /\ loc[c].tok \in Range(conn[loc[c].on].log)
            /\ c \in rejected
                 => /\ res[c].kind = "DbError"
                    /\ res[c].data \in {<<"BEGIN">>, <<"BEGIN_RO">>, <<"SQL">>,
                                        <<"COMMIT">>, <<"SAVEPOINT">>}
    /\ (pc[c] = "query_rollback")
         => c \in rejected /\ loc[c].error \in {"BEGIN", "BEGIN_RO", "SQL", "COMMIT"}

C28_FailedWriteIsAnError ==
  \E c \in Callers :
    /\ Returned(c, "query", "DbError")
    /\ res[c].data = <<"SQL">>
    /\ DbModifies(req[c].sql)
    /\ c \in rejected
    /\ ~checkpointMode
    /\ nwrites = 0 /\ committed = {}

\* C29: when pool.connect() fails for a start or for a query call of Idle
\* mode, the call returns the pool's error in that step, no statement of it
\* having been rejected by the database; mode, session client, counter and
\* history, the checked-out clients, every client's queue and transaction and
\* the durable state are unchanged, the session is Idle, and no other caller
\* is affected, so the pool and the session are as they were for the calls
\* that follow.
C29_PoolFailureIsolated ==
  [][\A c \in Callers :
       (pc[c] \in {"start_connect", "query_connect"} /\ pc'[c] = "done")
       => /\ res'[c] = Result("PoolError")
          /\ UNCHANGED <<sessionVars, dbVars>>
          /\ ~checkpointMode'
          /\ c \notin rejected'
          /\ loc'[c].on = 0 /\ loc'[c].client = 0
          /\ \A d \in Callers \ {c} :
               pc'[d] = pc[d] /\ res'[d] = res[d] /\ loc'[d] = loc[d]]_vars

C29_StartPoolErrorAfterWork ==
  \E c \in Callers :
    /\ Returned(c, "start", "PoolError")
    /\ ~checkpointMode /\ sessionClient = 0
    /\ checkpointCounter = 0 /\ checkpointHistory = <<>>
    /\ held = {}
    /\ committed # {}

\* position of write t in the transaction of client k, 0 when it is not there
LogIndex(k, t) ==
  IF t \in Range(conn[k].log)
  THEN CHOOSE i \in 1..Len(conn[k].log) : conn[k].log[i] = t
  ELSE 0

\* C30: whatever the interleaving of the query calls, every savepoint on the
\* session's client that belongs to a checkpoint of the history was
\* established right after that checkpoint's write: the transaction held, at
\* the savepoint, the writes up to and including that write and no later one.
C30_SavepointFollowsItsWrite ==
  (checkpointMode /\ sessionClient # 0)
  => \A i \in 1..Len(conn[sessionClient].sp) :
       LET s == conn[sessionClient].sp[i] IN
       (s.id \in HistoryIds /\ s.id \in DOMAIN cpTok
          /\ cpTok[s.id] \in Range(conn[sessionClient].log))
       => s.len = LogIndex(sessionClient, cpTok[s.id])

\* C31: whatever the interleaving of query calls with commit and discard, a
\* client that is back in the pool has no statement of a checkpoint-mode
\* query call pending on it, and no query call fails on a session client
\* that has been cleared.
C31_NoUseAfterRelease ==
  /\ \A k \in Conns \ held :
       \A i \in 1..Len(conn[k].q) :
         pc[conn[k].q[i].caller] \notin SessionLabels
  /\ \A c \in Callers :
       (pc[c] = "done" /\ req[c].op = "query") => res[c].kind # "TypeError"

\* C32: in every state in which the session is Idle the counter is 0 and the
\* history is empty.
C32_IdleIsClean ==
  ~checkpointMode => (checkpointCounter = 0 /\ checkpointHistory = <<>>)

\* C33: under role read, in every state the counter is 0 and the history is
\* empty, no call awaits a SAVEPOINT, the database has executed no write, and
\* every query call whose statement is classified as a write has been denied
\* by the gate in the step that received it.
C33_ReadRoleNoCheckpoint ==
  role = "read"
  => /\ checkpointCounter = 0
     /\ checkpointHistory = <<>>
     /\ nwrites = 0
     /\ \A c \in Callers :
          /\ pc[c] # "query_savepoint"
          /\ (req[c].op = "query" /\ isWrite(req[c].sql))
               => /\ pc[c] = "done"
                  /\ res[c].kind = "PermissionDenied"
                  /\ loc[c] = NoLoc

C33_ReadRoleWriteDeniedInSession ==
  \E c \in Callers :
    /\ role = "read"
    /\ checkpointMode
    /\ Returned(c, "query", "PermissionDenied")
    /\ req[c].sql = sqlInsert
    /\ checkpointCounter = 0 /\ checkpointHistory = <<>>

Last(s) == s[Len(s)]

C36_RollbackArgumentChecks ==
  [][\A c \in Callers :
       (IsCall(c, "rollback") /\ req'[c].id \in {Undefined, 0})
       => /\ pc'[c] = "done"
          /\ res'[c] = IF checkpointMode /\ sessionClient # 0
                       THEN Result("IdRequired")
                       ELSE Result("NoActiveSession")
          /\ loc'[c] = NoLoc
          /\ c \notin rejected'
          /\ UNCHANGED <<sessionVars, dbVars>>]_vars

C36_ZeroIdRequiredInSession ==
  \E c \in Callers :
    /\ Returned(c, "rollback", "IdRequired")
    /\ req[c].id = 0
    /\ checkpointMode
    /\ Len(checkpointHistory) = 2

EndStmts ==
  [rollback_wait |-> "ROLLBACK_TO", commit_wait |-> "COMMIT", discard_wait |-> "ROLLBACK"]

\* C37: when the database rejects the COMMIT of commit, the ROLLBACK of
\* discard or the ROLLBACK TO SAVEPOINT of rollback, the call ends in that
\* step with the error of that statement; the session client stays checked
\* out and stays the session client, the session stays Active, counter and
\* history are unchanged, and nothing more is queued on the client.
C37_EndStatementFailure ==
  [][\A c \in Callers :
       (pc[c] \in DOMAIN EndStmts /\ pc'[c] = "done" /\ c \in rejected')
       => /\ res'[c] = DbError(EndStmts[pc[c]])
          /\ UNCHANGED sessionVars
          /\ held' = held
          /\ checkpointMode' /\ sessionClient' # 0 /\ sessionClient' \in held'
          /\ conn'[sessionClient].q = <<>>
          /\ committed' = committed]_vars

C37_CommitRejectedSessionKept ==
  \E c \in Callers :
    /\ Returned(c, "commit", "DbError")
    /\ c \in rejected
    /\ checkpointMode /\ sessionClient \in held
    /\ checkpointCounter = 1 /\ Len(checkpointHistory) = 1

\* C38: whatever the interleaving, a query call that found the session Idle
\* holds from pool.connect() to its return one client of its own, which is
\* never the session's client; none of its steps changes mode, session
\* client, counter or history, also when a start has completed meanwhile;
\* the step that answers its COMMIT makes the writes of its transaction
\* durable, and no step of any call ever takes a write out of the durable
\* state.
C38_ModeFixedAtDispatch ==
  [][/\ committed \subseteq committed'
     /\ \A c \in Callers :
          LET k == loc[c].client IN
          /\ pc[c] \in NormalLabels
               => /\ k # 0 /\ k \in held /\ k # sessionClient
                  /\ loc[c].on = k
                  /\ pc'[c] \in NormalLabels => loc'[c].client = k
          /\ (pc[c] \in NormalLabels \cup {"query_connect"} /\ pc'[c] # pc[c])
               => UNCHANGED sessionVars
          /\ (Completes(c, "query_commit", "ok") /\ DbModifies(req[c].sql))
               => /\ conn[k].log # <<>>
                  /\ Range(conn[k].log) \subseteq committed']_vars

C38_StartCompletedWhileInFlight ==
  \E c, d \in Callers :
    /\ pc[c] = "query_commit"
    /\ req[c].sql = sqlInsert
    /\ Returned(d, "start", "ok")
    /\ checkpointMode /\ sessionClient # 0
    /\ sessionClient # loc[c].client
    /\ checkpointCounter = 0 /\ checkpointHistory = <<>>

====
